---- MODULE Spec2Model ----
(***************************************************************************)
(* Model of the ARM64 encoder IPC client (EncoderIpcClient in              *)
(* Arm64EncoderIpc.cpp / Arm64EncoderIpc.h) together with the worker       *)
(* process it talks to through the named shared region and the three named *)
(* auto-reset events.                                                       *)
(*                                                                         *)
(* The client is one thread: pc is its position, call the operation in     *)
(* progress with its arguments and locals.  A step of the client is a run   *)
(* of statements with at most one access to the shared region, a signal or  *)
(* the set of named objects, so that the worker's steps interleave with     *)
(* every such access.  The worker's code is not part of the sources; it is  *)
(* modelled from the collaborator contract.                                 *)
(***************************************************************************)
EXTENDS Integers, Sequences, FiniteSets, TLC

\* ------------------------------------------------------------------ bounds
\* Capacity of frame_buffer, scaled down from 4096 * 2160 * 4 bytes.
FRAME_BUFFER_SIZE == 2
\* Capacity of packet_buffer, scaled down from 4 MiB (smaller than the frame buffer).
PACKET_BUFFER_SIZE == 1
\* Worker processes that can ever be launched.
MaxWorkers == 2
\* Calls of the client's operations in one execution.
MaxCalls == 5

\* --------------------------------------------------------------- constants
\* for (int i = 0; i < 50; i++): attach attempts after a launch.
PollAttempts == 50
FRAME_READY_EVENT == "ALVR_ARM64_FRAME_READY"
PACKET_READY_EVENT == "ALVR_ARM64_PACKET_READY"
ENCODER_READY_EVENT == "ALVR_ARM64_ENCODER_READY"
Signals == {FRAME_READY_EVENT, PACKET_READY_EVENT, ENCODER_READY_EVENT}

\* enum class PixelFormat : uint8_t
PixelFormat == [RGBA |-> 0, NV12 |-> 1, P010 |-> 2]

Workers == 1..MaxWorkers

\* ------------------------------------------------------------------ inputs
\* The frames a caller sends: one frame of each of the sizes 0, 1, capacity - 1,
\* capacity and capacity + 1, each different from the others in its timestamp
\* (n + 1) and in the value of its bytes (n + 1).  Frames of odd size ask for
\* an IDR; the pixel format alternates; the geometry is the session's.
FrameSizes == {0, 1, FRAME_BUFFER_SIZE - 1, FRAME_BUFFER_SIZE, FRAME_BUFFER_SIZE + 1}
Payload(n) == [i \in 1..n |-> n + 1]
FrameArgs(n) ==
    [data |-> Payload(n), data_size |-> n, width |-> 2, height |-> 1,
     row_pitch |-> 3, timestamp_ns |-> n + 1, insert_idr |-> (n % 2 = 1),
     format |-> IF n % 2 = 1 THEN PixelFormat.RGBA ELSE PixelFormat.NV12]

\* ------------------------------------------------------------------- state
VARIABLES
    pc,                  \* position of the client thread
    call,                \* operation in progress: arguments and locals
    result,              \* operation and value of the last return
    m_sharedMemory,      \* HANDLE of the mapping, FALSE = nullptr
    m_sharedPtr,         \* mapped view, FALSE = nullptr
    m_frameReadyEvent,   \* HANDLE, FALSE = nullptr
    m_packetReadyEvent,  \* HANDLE, FALSE = nullptr
    m_encoderReadyEvent, \* HANDLE, FALSE = nullptr
    m_encoderProcess,    \* process handle: the worker it names, 0 = nullptr
    m_connected,
    leaked,              \* handles overwritten without CloseHandle
    shared,              \* SharedMemoryLayout
    signaled,            \* state of the three auto-reset events
    worker,              \* the worker processes
    packet_data,         \* ReceivePacket's output arguments (caller-owned)
    timestamp_ns,
    is_idr,
    calls                \* operations called so far

fields == <<m_sharedMemory, m_sharedPtr, m_frameReadyEvent, m_packetReadyEvent,
            m_encoderReadyEvent, m_encoderProcess, m_connected>>
outputs == <<packet_data, timestamp_ns, is_idr>>
vars == <<pc, call, result, fields, leaked, shared, signaled, worker, outputs, calls>>

\* --------------------------------------------------------- shared region
ZeroBytes(n) == [i \in 1..n |-> 0]

FrameHeader(w, h, ts, idr, fmt, pitch, size, sd) ==
    [width |-> w, height |-> h, timestamp_ns |-> ts, insert_idr |-> idr,
     pixel_format |-> fmt, row_pitch |-> pitch, data_size |-> size, shutdown |-> sd]

PacketHeader(size, ts, idr) == [size |-> size, timestamp_ns |-> ts, is_idr |-> idr]

\* A freshly created mapping is zero-filled.
SharedMemoryLayout ==
    [frame_header |-> FrameHeader(0, 0, 0, 0, 0, 0, 0, 0),
     packet_header |-> PacketHeader(0, 0, 0),
     frame_buffer |-> ZeroBytes(FRAME_BUFFER_SIZE),
     packet_buffer |-> ZeroBytes(PACKET_BUFFER_SIZE)]

\* memcpy(dst, src, n) where dst is the start of frame_buffer: frame_buffer and
\* packet_buffer are adjacent in the packed layout, so bytes beyond the frame
\* buffer's capacity land in packet_buffer.
MemcpyToFrameBuffer(sh, src, n) ==
    LET mem == sh.frame_buffer \o sh.packet_buffer
        out == [i \in 1..Len(mem) |-> IF i <= n THEN src[i] ELSE mem[i]]
    IN [sh EXCEPT !.frame_buffer = SubSeq(out, 1, FRAME_BUFFER_SIZE),
                  !.packet_buffer = SubSeq(out, FRAME_BUFFER_SIZE + 1, Len(mem))]

\* ------------------------------------------------- named kernel objects
\* A named object exists while some process holds a handle to it.
ClientEvent(s, fe, pe, re) ==
    CASE s = FRAME_READY_EVENT -> fe
      [] s = PACKET_READY_EVENT -> pe
      [] s = ENCODER_READY_EVENT -> re

MappingExists(sm, lk, wk) ==
    sm \/ "mapping" \in lk \/ \E w \in Workers : wk[w].region

EventExists(s, fe, pe, re, lk, wk) ==
    ClientEvent(s, fe, pe, re) \/ s \in lk \/ \E w \in Workers : s \in wk[w].events

\* The region's contents and the events' states vanish with the objects.
Region(sh, sm, lk, wk) == IF MappingExists(sm, lk, wk) THEN sh ELSE SharedMemoryLayout

Events(sg, fe, pe, re, lk, wk) ==
    [s \in Signals |-> sg[s] /\ EventExists(s, fe, pe, re, lk, wk)]

RegionNow == MappingExists(m_sharedMemory, leaked, worker)
EventNow(s) ==
    EventExists(s, m_frameReadyEvent, m_packetReadyEvent, m_encoderReadyEvent, leaked, worker)

\* ------------------------------------------------------------ the client
NoCall ==
    [op |-> "none", again |-> FALSE, why |-> "", i |-> 0, trace |-> <<>>,
     data |-> <<>>, data_size |-> 0,
     width |-> 0, height |-> 0, row_pitch |-> 0, timestamp_ns |-> 0,
     insert_idr |-> FALSE, format |-> 0]

\* No operation has returned since the last call.
NoResult == [op |-> "none", ok |-> TRUE, why |-> "", again |-> FALSE, data_size |-> 0]

NoFrame == [data |-> <<>>, timestamp_ns |-> 0, insert_idr |-> 0]
NoWorker == [pc |-> "none", region |-> FALSE, events |-> {}, frame |-> NoFrame]

Init ==
    /\ pc = "idle"
    /\ call = NoCall
    /\ result = NoResult
    /\ m_sharedMemory = FALSE
    /\ m_sharedPtr = FALSE
    /\ m_frameReadyEvent = FALSE
    /\ m_packetReadyEvent = FALSE
    /\ m_encoderReadyEvent = FALSE
    /\ m_encoderProcess = 0
    /\ m_connected = FALSE
    /\ leaked = {}
    /\ shared = SharedMemoryLayout
    /\ signaled = [s \in Signals |-> FALSE]
    /\ worker = [w \in Workers |-> NoWorker]
    /\ packet_data = <<>>
    /\ timestamp_ns = 0
    /\ is_idr = FALSE
    /\ calls = 0

\* A call begins: the output arguments are locals of the caller, made anew for
\* every call: std::vector<uint8_t> packet; uint64_t pts; bool isIdr;
FreshOutputs ==
    /\ packet_data' = <<>>
    /\ timestamp_ns' = 0
    /\ is_idr' = FALSE

\* The caller calls an operation of the client.
Called ==
    /\ pc = "idle"
    /\ calls < MaxCalls
    /\ calls' = calls + 1
    /\ FreshOutputs

\* The operation c goes on at statement l.
Goto(l, c) ==
    /\ pc' = l
    /\ call' = c
    /\ result' = NoResult

\* The operation c returns.
Return(c, ok, why) ==
    /\ pc' = "idle"
    /\ call' = NoCall
    /\ result' = [op |-> c.op, ok |-> ok, why |-> why, again |-> c.again,
                   data_size |-> c.data_size]

\* c with one more effect on its record of what the operation has done.
Did(c, what) == [c EXCEPT !.trace = Append(@, what)]

\* Handles of the client that a step overwrites while they are still open.
Overwritten(names) == leaked \cup names

\* After a step that opened or closed handles: objects nobody holds are gone.
Settle(sh, sg) ==
    /\ shared' = Region(sh, m_sharedMemory', leaked', worker')
    /\ signaled' = Events(sg, m_frameReadyEvent', m_packetReadyEvent',
                          m_encoderReadyEvent', leaked', worker')

\* The label that follows l in a sequence of statement labels, last after the end.
After(order, l, last) ==
    LET k == CHOOSE j \in 1..Len(order) : order[j] = l
    IN IF k < Len(order) THEN order[k + 1] ELSE last

Labels(order) == {order[j] : j \in 1..Len(order)}

\* ------------------------------------------------------------ Shutdown
\* A faulty variant: Shutdown waiting on the process before it releases the handles.
ShutdownOrder_WaitBeforeRelease == <<"SD_flag", "SD_raise", "SD_wait", "SD_release">>

\* Shutdown(): the order of its statements; m_connected = false ends it.
ShutdownOrder == <<"SD_flag", "SD_raise", "SD_release", "SD_wait">>
ShutdownEntry == ShutdownOrder[1]

\* After statement l of Shutdown: the next one, or m_connected = false and the
\* return, to the caller or into Initialize, which then returns false.
ShutdownNext(l, c) ==
    IF After(ShutdownOrder, l, "end") = "end"
      THEN /\ m_connected' = FALSE
           /\ IF c.op = "Initialize" THEN Return(c, FALSE, c.why) ELSE Return(c, TRUE, "")
      ELSE /\ Goto(After(ShutdownOrder, l, "end"), c)
           /\ UNCHANGED m_connected

\* if (m_sharedPtr != nullptr && m_connected) frame_header.shutdown = 1;
SD_flag(c) ==
    /\ IF m_sharedPtr /\ m_connected
         THEN /\ shared' = [shared EXCEPT !.frame_header.shutdown = 1]
              /\ ShutdownNext("SD_flag", Did(c, "flag"))
         ELSE /\ UNCHANGED shared
              /\ ShutdownNext("SD_flag", c)
    /\ UNCHANGED <<m_sharedMemory, m_sharedPtr, m_frameReadyEvent, m_packetReadyEvent,
                   m_encoderReadyEvent, m_encoderProcess, leaked, signaled, worker>>

\* ... and, in the same branch, if (m_frameReadyEvent != nullptr) SetEvent(it).
SD_raise(c) ==
    /\ IF m_sharedPtr /\ m_connected /\ m_frameReadyEvent
         THEN /\ signaled' = [signaled EXCEPT ![FRAME_READY_EVENT] = TRUE]
              /\ ShutdownNext("SD_raise", Did(c, "raise"))
         ELSE /\ UNCHANGED signaled
              /\ ShutdownNext("SD_raise", c)
    /\ UNCHANGED <<m_sharedMemory, m_sharedPtr, m_frameReadyEvent, m_packetReadyEvent,
                   m_encoderReadyEvent, m_encoderProcess, leaked, shared, worker>>

\* Unmap the view, close the mapping handle and the three event handles.
SD_release(c) ==
    /\ m_sharedPtr' = FALSE
    /\ m_sharedMemory' = FALSE
    /\ m_frameReadyEvent' = FALSE
    /\ m_packetReadyEvent' = FALSE
    /\ m_encoderReadyEvent' = FALSE
    /\ IF m_sharedPtr \/ m_sharedMemory \/ m_frameReadyEvent \/ m_packetReadyEvent
            \/ m_encoderReadyEvent
         THEN ShutdownNext("SD_release", Did(c, "release"))
         ELSE ShutdownNext("SD_release", c)
    /\ UNCHANGED <<m_encoderProcess, leaked, worker>>
    /\ Settle(shared, signaled)

\* A faulty variant: Shutdown waiting on the process without closing its handle.
SD_wait_KeepsProcess(c) ==
    /\ IF m_encoderProcess # 0
         THEN ShutdownNext("SD_wait", Did(c, "timeout"))
         ELSE ShutdownNext("SD_wait", c)
    /\ UNCHANGED <<m_sharedMemory, m_sharedPtr, m_frameReadyEvent, m_packetReadyEvent,
                   m_encoderReadyEvent, m_encoderProcess, leaked, shared, signaled,
                   worker>>

\* if (m_encoderProcess != nullptr) { WaitForSingleObject(it, 3000); CloseHandle(it); }
\* The wait returns when the worker has exited, or when the three seconds are over.
SD_wait(c) ==
    /\ m_encoderProcess' = 0
    /\ IF m_encoderProcess # 0
         THEN ShutdownNext("SD_wait",
                  Did(Did(c, IF worker[m_encoderProcess].pc = "exited"
                               THEN "exited" ELSE "timeout"), "close"))
         ELSE ShutdownNext("SD_wait", c)
    /\ UNCHANGED <<m_sharedMemory, m_sharedPtr, m_frameReadyEvent, m_packetReadyEvent,
                   m_encoderReadyEvent, leaked, shared, signaled, worker>>

\* The statement of Shutdown at label l.
ShutdownStatement(l, c) ==
    \/ l = "SD_flag" /\ SD_flag(c)
    \/ l = "SD_raise" /\ SD_raise(c)
    \/ l = "SD_release" /\ SD_release(c)
    \/ l = "SD_wait" /\ SD_wait(c)

\* The caller invokes Shutdown(); the first statement runs.
CallShutdown ==
    /\ Called
    /\ ShutdownStatement(ShutdownEntry,
           [NoCall EXCEPT !.op = "Shutdown", !.again = (result.op = "Shutdown")])

\* Shutdown goes on, called by the caller or by Initialize.
ShutdownStep ==
    /\ pc \in Labels(ShutdownOrder)
    /\ ShutdownStatement(pc, call)
    /\ UNCHANGED <<calls, outputs>>

\* ---------------------------------------------------------- Initialize
\* The worker processes not launched yet; a launch takes the lowest one.
Unlaunched == {w \in Workers : worker[w].pc = "none"}
NextWorker == CHOOSE w \in Unlaunched : \A v \in Unlaunched : w <= v

\* m_sharedPtr = MapViewOfFile(m_sharedMemory, ...), with the mapping handle just
\* opened: go on to the events, or on failure close the handle and return false.
MapViewOfFile(c) ==
    /\ leaked' = Overwritten((IF m_sharedMemory THEN {"mapping"} ELSE {})
                                \cup (IF m_sharedPtr THEN {"view"} ELSE {}))
    /\ \/ /\ m_sharedMemory' = TRUE
          /\ m_sharedPtr' = TRUE
          /\ Goto("IN_events", c)
       \/ /\ m_sharedMemory' = FALSE
          /\ m_sharedPtr' = FALSE
          /\ Return(c, FALSE, "MapViewFailed")

\* LaunchEncoderProcess(): the executable is missing, CreateProcessW fails, or
\* the worker starts and m_encoderProcess takes its process handle.
LaunchEncoderProcess(c) ==
    \/ /\ Return(c, FALSE, "WorkerBinaryNotFound")
       /\ UNCHANGED <<m_encoderProcess, leaked, worker>>
    \/ /\ Return(c, FALSE, "CreateProcessFailed")
       /\ UNCHANGED <<m_encoderProcess, leaked, worker>>
    \/ /\ Unlaunched # {}
       /\ worker' = [worker EXCEPT ![NextWorker].pc = "start"]
       /\ m_encoderProcess' = NextWorker
       /\ leaked' = Overwritten((IF m_sharedMemory THEN {"mapping"} ELSE {})
                                   \cup (IF m_encoderProcess # 0 THEN {"process"} ELSE {}))
       /\ Goto("IN_poll", c)

\* The caller invokes Initialize(width, height, codec); the three values are
\* only stored and passed on the worker's command line.
\* m_sharedMemory = OpenFileMappingW(...): map the region if it exists, launch
\* the worker if it does not.
CallInitialize ==
    /\ Called
    /\ LET c == [NoCall EXCEPT !.op = "Initialize"]
       IN IF RegionNow
            THEN /\ MapViewOfFile(c)
                 /\ UNCHANGED <<m_encoderProcess, worker>>
            ELSE /\ LaunchEncoderProcess(c)
                 /\ m_sharedMemory' = FALSE
                 /\ UNCHANGED m_sharedPtr
    /\ UNCHANGED <<m_frameReadyEvent, m_packetReadyEvent, m_encoderReadyEvent,
                   m_connected>>
    /\ Settle(shared, signaled)

\* A faulty variant: the poll loop of Initialize making one attempt too many.
IN_poll_OneMore ==
    /\ pc = "IN_poll"
    /\ IF call.i <= PollAttempts
         THEN IF RegionNow
                THEN MapViewOfFile(call)
                ELSE /\ Goto(pc, [call EXCEPT !.i = call.i + 1])
                     /\ UNCHANGED <<m_sharedMemory, m_sharedPtr, leaked>>
         ELSE /\ Return(call, FALSE, "SharedRegionUnavailable")
              /\ UNCHANGED <<m_sharedMemory, m_sharedPtr, leaked>>
    /\ UNCHANGED <<m_frameReadyEvent, m_packetReadyEvent, m_encoderReadyEvent,
                   m_encoderProcess, m_connected, worker, outputs, calls>>
    /\ Settle(shared, signaled)

\* for (i = 0; i < 50; i++) { Sleep(100); open; if found break; }  then the null
\* test: return false, or map the region.
IN_poll ==
    /\ pc = "IN_poll"
    /\ IF call.i < PollAttempts
         THEN IF RegionNow
                THEN MapViewOfFile(call)
                ELSE /\ Goto(pc, [call EXCEPT !.i = call.i + 1])
                     /\ UNCHANGED <<m_sharedMemory, m_sharedPtr, leaked>>
         ELSE /\ Return(call, FALSE, "SharedRegionUnavailable")
              /\ UNCHANGED <<m_sharedMemory, m_sharedPtr, leaked>>
    /\ UNCHANGED <<m_frameReadyEvent, m_packetReadyEvent, m_encoderReadyEvent,
                   m_encoderProcess, m_connected, worker, outputs, calls>>
    /\ Settle(shared, signaled)

\* A faulty variant: Initialize returning on a missing signal without Shutdown().
IN_events_NoTeardown ==
    /\ pc = "IN_events"
    /\ m_frameReadyEvent' = EventNow(FRAME_READY_EVENT)
    /\ m_packetReadyEvent' = EventNow(PACKET_READY_EVENT)
    /\ m_encoderReadyEvent' = EventNow(ENCODER_READY_EVENT)
    /\ leaked' = Overwritten({s \in Signals :
                      ClientEvent(s, m_frameReadyEvent, m_packetReadyEvent,
                                  m_encoderReadyEvent)})
    /\ IF \A s \in Signals : EventNow(s)
         THEN Goto("IN_ready", call)
         ELSE Return(call, FALSE, "SignalUnavailable")
    /\ UNCHANGED <<m_sharedMemory, m_sharedPtr, m_encoderProcess, m_connected,
                   shared, signaled, worker, outputs, calls>>

\* The three OpenEventW calls and the test that all of them succeeded.
IN_events ==
    /\ pc = "IN_events"
    /\ m_frameReadyEvent' = EventNow(FRAME_READY_EVENT)
    /\ m_packetReadyEvent' = EventNow(PACKET_READY_EVENT)
    /\ m_encoderReadyEvent' = EventNow(ENCODER_READY_EVENT)
    /\ leaked' = Overwritten({s \in Signals :
                      ClientEvent(s, m_frameReadyEvent, m_packetReadyEvent,
                                  m_encoderReadyEvent)})
    /\ IF \A s \in Signals : EventNow(s)
         THEN Goto("IN_ready", call)
         ELSE Goto(ShutdownEntry, [call EXCEPT !.why = "SignalUnavailable"])
    /\ UNCHANGED <<m_sharedMemory, m_sharedPtr, m_encoderProcess, m_connected,
                   shared, signaled, worker, outputs, calls>>

\* WaitForSingleObject on an auto-reset event: a raise is consumed by the wait
\* that it satisfies; without a raise the wait ends by timeout.
WaitForSingleObject(raised) == IF raised THEN "WAIT_OBJECT_0" ELSE "WAIT_TIMEOUT"

\* A faulty variant: WaitForEncoderReady without the test of the wait result.
WaitForEncoderReady_IgnoresResult(handle, raised) == TRUE

\* WaitForEncoderReady(): false without the event; else result == WAIT_OBJECT_0.
WaitForEncoderReady(handle, raised) ==
    handle /\ WaitForSingleObject(raised) = "WAIT_OBJECT_0"

\* A faulty variant: Initialize returning on a readiness timeout without Shutdown().
IN_ready_NoTeardown ==
    /\ pc = "IN_ready"
    /\ IF WaitForEncoderReady(m_encoderReadyEvent, signaled[ENCODER_READY_EVENT])
         THEN /\ m_connected' = TRUE
              /\ Return(call, TRUE, "")
         ELSE /\ Return(call, FALSE, "WorkerNotReady")
              /\ UNCHANGED m_connected
    /\ signaled' = IF m_encoderReadyEvent
                     THEN [signaled EXCEPT ![ENCODER_READY_EVENT] = FALSE]
                     ELSE signaled
    /\ UNCHANGED <<m_sharedMemory, m_sharedPtr, m_frameReadyEvent, m_packetReadyEvent,
                   m_encoderReadyEvent, m_encoderProcess, leaked, shared, worker,
                   outputs, calls>>

\* A faulty variant: worker_ready as a manual-reset event, which the readiness
\* wait leaves raised.
IN_ready_ManualReset ==
    /\ pc = "IN_ready"
    /\ IF WaitForEncoderReady(m_encoderReadyEvent, signaled[ENCODER_READY_EVENT])
         THEN /\ m_connected' = TRUE
              /\ Return(call, TRUE, "")
         ELSE /\ Goto(ShutdownEntry, [call EXCEPT !.why = "WorkerNotReady"])
              /\ UNCHANGED m_connected
    /\ UNCHANGED <<m_sharedMemory, m_sharedPtr, m_frameReadyEvent, m_packetReadyEvent,
                   m_encoderReadyEvent, m_encoderProcess, leaked, shared, signaled,
                   worker, outputs, calls>>

\* if (!WaitForEncoderReady()) { Shutdown(); return false; }  m_connected = true;
IN_ready ==
    /\ pc = "IN_ready"
    /\ IF WaitForEncoderReady(m_encoderReadyEvent, signaled[ENCODER_READY_EVENT])
         THEN /\ m_connected' = TRUE
              /\ Return(call, TRUE, "")
         ELSE /\ Goto(ShutdownEntry, [call EXCEPT !.why = "WorkerNotReady"])
              /\ UNCHANGED m_connected
    /\ signaled' = IF m_encoderReadyEvent
                     THEN [signaled EXCEPT ![ENCODER_READY_EVENT] = FALSE]
                     ELSE signaled
    /\ UNCHANGED <<m_sharedMemory, m_sharedPtr, m_frameReadyEvent, m_packetReadyEvent,
                   m_encoderReadyEvent, m_encoderProcess, leaked, shared, worker,
                   outputs, calls>>

\* ------------------------------------------------------------ SendFrame
\* A faulty variant: SendFrame raising frame_ready before the copy.
SendFrameOrder_SignalFirst == <<"SF_header", "SF_signal", "SF_copy">>

\* SendFrame(): the order of its statements after the two entry tests.
SendFrameOrder == <<"SF_header", "SF_copy", "SF_signal">>

\* After statement l of SendFrame: the next one, or return true.
SendFrameNext(l, c) ==
    IF After(SendFrameOrder, l, "end") = "end"
      THEN Return(c, TRUE, "")
      ELSE Goto(After(SendFrameOrder, l, "end"), c)

\* A faulty variant: the size test with a bound one too high.
FrameTooLarge_OffByOne(data_size) == data_size > FRAME_BUFFER_SIZE + 1

\* if (data_size > FRAME_BUFFER_SIZE) return false;
FrameTooLarge(data_size) == data_size > FRAME_BUFFER_SIZE

\* A faulty variant: SendFrame without its size test.
SendFrame_check_NoSizeTest(c) ==
    IF ~m_connected \/ ~m_sharedPtr
      THEN Return(c, FALSE, "NotConnected")
      ELSE Goto(SendFrameOrder[1], c)

\* A faulty variant: SendFrame refusing a frame while frame_ready is pending.
SendFrame_check_SlotBusy(c) ==
    IF ~m_connected \/ ~m_sharedPtr
      THEN Return(c, FALSE, "NotConnected")
      ELSE IF FrameTooLarge(c.data_size) \/ signaled[FRAME_READY_EVENT]
             THEN Return(c, FALSE, "FrameTooLarge")
             ELSE Goto(SendFrameOrder[1], c)

\* if (!m_connected || m_sharedPtr == nullptr) return false; then the size test.
SendFrame_check(c) ==
    IF ~m_connected \/ ~m_sharedPtr
      THEN Return(c, FALSE, "NotConnected")
      ELSE IF FrameTooLarge(c.data_size)
             THEN Return(c, FALSE, "FrameTooLarge")
             ELSE Goto(SendFrameOrder[1], c)

\* The caller passes data_size bytes at data together with the frame's
\* metadata; the entry tests run.
CallSendFrame ==
    /\ Called
    /\ \E n \in FrameSizes :
          LET a == FrameArgs(n)
          IN SendFrame_check(
                 [NoCall EXCEPT !.op = "SendFrame",
                                !.data = a.data, !.data_size = a.data_size,
                                !.width = a.width, !.height = a.height,
                                !.row_pitch = a.row_pitch,
                                !.timestamp_ns = a.timestamp_ns,
                                !.insert_idr = a.insert_idr, !.format = a.format])
    /\ UNCHANGED <<fields, leaked, shared, signaled, worker>>

\* The eight assignments to m_sharedPtr->frame_header.
FilledFrameHeader(c) ==
    FrameHeader(c.width, c.height, c.timestamp_ns, IF c.insert_idr THEN 1 ELSE 0,
                c.format, c.row_pitch, c.data_size, 0)

SendFrame_header ==
    /\ pc = "SF_header"
    /\ shared' = [shared EXCEPT !.frame_header = FilledFrameHeader(call)]
    /\ SendFrameNext(pc, Did(call, "header"))
    /\ UNCHANGED <<fields, leaked, signaled, worker, outputs, calls>>

\* memcpy(m_sharedPtr->frame_buffer, data, data_size);
SendFrame_copy ==
    /\ pc = "SF_copy"
    /\ shared' = MemcpyToFrameBuffer(shared, call.data, call.data_size)
    /\ SendFrameNext(pc, Did(call, "copy"))
    /\ UNCHANGED <<fields, leaked, signaled, worker, outputs, calls>>

\* if (!SetEvent(m_frameReadyEvent)) return false;  SetEvent fails on an OS
\* error and then raises nothing.
SendFrame_signal ==
    /\ pc = "SF_signal"
    /\ \/ /\ signaled' = [signaled EXCEPT ![FRAME_READY_EVENT] = TRUE]
          /\ SendFrameNext(pc, Did(call, "raise"))
       \/ /\ Return(call, FALSE, "SignalRaiseFailed")
          /\ UNCHANGED signaled
    /\ UNCHANGED <<fields, leaked, shared, worker, outputs, calls>>

\* -------------------------------------------------------- ReceivePacket
\* A faulty variant: ReceivePacket without its entry test.
ReceivePacket_check_NoTest(c) == Goto("RP_wait", c)

\* if (!m_connected || m_sharedPtr == nullptr) return false;
ReceivePacket_check(c) ==
    IF ~m_connected \/ ~m_sharedPtr
      THEN Return(c, FALSE, "NotConnected")
      ELSE Goto("RP_wait", c)

\* The caller invokes ReceivePacket(packet, pts, isIdr); the entry test runs.
CallReceivePacket ==
    /\ Called
    /\ ReceivePacket_check([NoCall EXCEPT !.op = "ReceivePacket"])
    /\ UNCHANGED <<fields, leaked, shared, signaled, worker>>

\* A faulty variant: ReceivePacket ending the session on a timeout.
RP_wait_DropsSession ==
    /\ pc = "RP_wait"
    /\ IF WaitForSingleObject(signaled[PACKET_READY_EVENT]) = "WAIT_OBJECT_0"
         THEN /\ signaled' = [signaled EXCEPT ![PACKET_READY_EVENT] = FALSE]
              /\ Goto("RP_read", call)
              /\ UNCHANGED m_connected
         ELSE /\ Return(call, FALSE, "Timeout")
              /\ m_connected' = FALSE
              /\ UNCHANGED signaled
    /\ UNCHANGED <<m_sharedMemory, m_sharedPtr, m_frameReadyEvent, m_packetReadyEvent,
                   m_encoderReadyEvent, m_encoderProcess, leaked, shared, worker,
                   outputs, calls>>

\* A faulty variant: packet_ready as a manual-reset event, which a wait leaves raised.
RP_wait_ManualReset ==
    /\ pc = "RP_wait"
    /\ IF WaitForSingleObject(signaled[PACKET_READY_EVENT]) = "WAIT_OBJECT_0"
         THEN Goto("RP_read", call)
         ELSE Return(call, FALSE, "Timeout")
    /\ UNCHANGED <<fields, leaked, shared, signaled, worker, outputs, calls>>

\* A faulty variant: the wait on packet_ready with no timeout (INFINITE).
RP_wait_Infinite ==
    /\ pc = "RP_wait"
    /\ signaled[PACKET_READY_EVENT]
    /\ signaled' = [signaled EXCEPT ![PACKET_READY_EVENT] = FALSE]
    /\ Goto("RP_read", call)
    /\ UNCHANGED <<fields, leaked, shared, worker, outputs, calls>>

\* WaitForSingleObject(m_packetReadyEvent, timeout_ms); not signalled: return false.
RP_wait ==
    /\ pc = "RP_wait"
    /\ IF WaitForSingleObject(signaled[PACKET_READY_EVENT]) = "WAIT_OBJECT_0"
         THEN /\ signaled' = [signaled EXCEPT ![PACKET_READY_EVENT] = FALSE]
              /\ Goto("RP_read", call)
         ELSE /\ Return(call, FALSE, "Timeout")
              /\ UNCHANGED signaled
    /\ UNCHANGED <<fields, leaked, shared, worker, outputs, calls>>

\* A faulty variant: the copy taking its bytes from the start of the packet
\* header instead of packet_buffer.
MemcpyFromPacketBuffer_FromHeader(sh, size) ==
    [i \in 1..size |-> sh.packet_header.size]

\* packet_data.resize(size); memcpy(packet_data.data(), packet_buffer, size);
\* The size test keeps size within the buffer; a read past it would be past
\* the end of the mapping.
MemcpyFromPacketBuffer(sh, size) ==
    [i \in 1..size |-> IF i <= PACKET_BUFFER_SIZE THEN sh.packet_buffer[i] ELSE 0]

\* A faulty variant: the packet size test with a bound one too high.
PacketTooLarge_OffByOne(size) == size > PACKET_BUFFER_SIZE + 1

\* if (size > PACKET_BUFFER_SIZE) return false;
PacketTooLarge(size) == size > PACKET_BUFFER_SIZE

\* Read size; reject it if too large; else copy size bytes, timestamp and flag.
RP_read ==
    /\ pc = "RP_read"
    /\ LET size == shared.packet_header.size
       IN IF PacketTooLarge(size)
            THEN /\ Return(call, FALSE, "PacketTooLarge")
                 /\ UNCHANGED outputs
            ELSE /\ packet_data' = MemcpyFromPacketBuffer(shared, size)
                 /\ timestamp_ns' = shared.packet_header.timestamp_ns
                 /\ is_idr' = (shared.packet_header.is_idr # 0)
                 /\ Return(call, TRUE, "")
    /\ UNCHANGED <<fields, leaked, shared, signaled, worker, calls>>

\* ---------------------------------------------------------- the worker
\* The worker process, from the collaborator contract: it creates the shared
\* region and the three signals, raises worker_ready once, and then serves
\* frame_ready raises: shutdown set means exit, else read the frame, write the
\* packet and raise packet_ready.  Creating a named object that exists opens it.
Min(a, b) == IF a < b THEN a ELSE b

W_CreateRegion(w) ==
    /\ worker[w].pc = "start"
    /\ worker' = [worker EXCEPT ![w].pc = "created", ![w].region = TRUE]
    /\ UNCHANGED <<pc, call, result, fields, leaked, shared, signaled, outputs, calls>>

\* The events are created in the order of their declaration.
EventOrder == <<FRAME_READY_EVENT, PACKET_READY_EVENT, ENCODER_READY_EVENT>>

W_CreateEvent(w) ==
    /\ worker[w].pc = "created"
    /\ worker[w].events # Signals
    /\ worker' = [worker EXCEPT ![w].events =
                       @ \cup {EventOrder[Cardinality(worker[w].events) + 1]}]
    /\ UNCHANGED <<pc, call, result, fields, leaked, shared, signaled, outputs, calls>>

W_Ready(w) ==
    /\ worker[w].pc = "created"
    /\ worker[w].events = Signals
    /\ worker' = [worker EXCEPT ![w].pc = "wait"]
    /\ signaled' = [signaled EXCEPT ![ENCODER_READY_EVENT] = TRUE]
    /\ UNCHANGED <<pc, call, result, fields, leaked, shared, outputs, calls>>

\* The wait on frame_ready ends and consumes the raise.
W_Wake(w) ==
    /\ worker[w].pc = "wait"
    /\ signaled[FRAME_READY_EVENT]
    /\ signaled' = [signaled EXCEPT ![FRAME_READY_EVENT] = FALSE]
    /\ worker' = [worker EXCEPT ![w].pc = "woken"]
    /\ UNCHANGED <<pc, call, result, fields, leaked, shared, outputs, calls>>

\* What the worker takes from the frame slot.
ReadFrame(sh) ==
    [data |-> SubSeq(sh.frame_buffer, 1, Min(sh.frame_header.data_size, FRAME_BUFFER_SIZE)),
     timestamp_ns |-> sh.frame_header.timestamp_ns,
     insert_idr |-> sh.frame_header.insert_idr]

\* Check shutdown first: exit (the process's handles close), else read the frame.
W_Check(w) ==
    /\ worker[w].pc = "woken"
    /\ IF shared.frame_header.shutdown # 0
         THEN worker' = [worker EXCEPT ![w] =
                            [pc |-> "exited", region |-> FALSE, events |-> {},
                             frame |-> NoFrame]]
         ELSE worker' = [worker EXCEPT ![w].pc = "encode", ![w].frame = ReadFrame(shared)]
    /\ UNCHANGED <<pc, call, result, fields, leaked, outputs, calls>>
    /\ Settle(shared, signaled)

\* The packet an echoing worker produces for a frame: the frame's bytes, its
\* timestamp, and an IDR packet when one was asked for.  The header declares
\* the full size; the buffer takes what fits.
WritePacket(sh, f) ==
    [sh EXCEPT !.packet_header =
                   PacketHeader(Len(f.data), f.timestamp_ns, f.insert_idr),
               !.packet_buffer =
                   [i \in 1..PACKET_BUFFER_SIZE |->
                       IF i <= Len(f.data) THEN f.data[i] ELSE sh.packet_buffer[i]]]

W_Write(w) ==
    /\ worker[w].pc = "encode"
    /\ shared' = WritePacket(shared, worker[w].frame)
    /\ worker' = [worker EXCEPT ![w].pc = "signal", ![w].frame = NoFrame]
    /\ UNCHANGED <<pc, call, result, fields, leaked, signaled, outputs, calls>>

W_Signal(w) ==
    /\ worker[w].pc = "signal"
    /\ signaled' = [signaled EXCEPT ![PACKET_READY_EVENT] = TRUE]
    /\ worker' = [worker EXCEPT ![w].pc = "wait"]
    /\ UNCHANGED <<pc, call, result, fields, leaked, shared, outputs, calls>>

WorkerStep(w) ==
    \/ W_CreateRegion(w)
    \/ W_CreateEvent(w)
    \/ W_Ready(w)
    \/ W_Wake(w)
    \/ W_Check(w)
    \/ W_Write(w)
    \/ W_Signal(w)

\* ------------------------------------------------------- specification
ClientStep ==
    \/ CallInitialize
    \/ IN_poll
    \/ IN_events
    \/ IN_ready
    \/ CallShutdown
    \/ ShutdownStep
    \/ CallSendFrame
    \/ SendFrame_header
    \/ SendFrame_copy
    \/ SendFrame_signal
    \/ CallReceivePacket
    \/ RP_wait
    \/ RP_read

Next == ClientStep \/ \E w \in Workers : WorkerStep(w)

Spec == Init /\ [][Next]_vars

\* An operation in progress goes on: the client thread is running.
ClientRuns == pc # "idle" /\ ClientStep

\* The client thread and every worker process are scheduled fairly; the caller
\* is under no obligation to call anything.
FairSpec ==
    /\ Spec
    /\ WF_vars(ClientRuns)
    /\ \A w \in Workers : WF_vars(WorkerStep(w))

\* Only the client thread is scheduled: a worker may stop at any point, never
\* start, or never raise a signal.
ClientFairSpec == Spec /\ WF_vars(ClientRuns)

\* ------------------------------------------------ the host's frame driver
\* VideoEncoderSW owns one client (m_arm64Encoder) and is its only caller.
\* Where the driver stands is told by the call that returned last.

\* m_useArm64Encoder: set when Initialize returned true (TryInitArm64Encoder),
\* cleared by VideoEncoderSW::Shutdown.
m_useArm64Encoder ==
    \/ result.op = "Initialize" /\ result.ok
    \/ result.op \in {"SendFrame", "ReceivePacket"}

\* The driver is inside TransmitViaArm64, SendFrame having returned true.
FrameSent == result.op = "SendFrame" /\ result.ok

\* m_arm64Encoder = make_unique<EncoderIpcClient>(); Initialize(width, height):
\* a new client, whose fields are those of a client after Shutdown.
TryInitArm64Encoder ==
    /\ result.op \in {"none", "Shutdown"}
    /\ CallInitialize

\* Initialize returned false: m_arm64Encoder.reset() destroys the client, and
\* its destructor calls Shutdown().
TryInitArm64Encoder_reset ==
    /\ result.op = "Initialize" /\ ~result.ok
    /\ CallShutdown

\* Transmit, with m_useArm64Encoder set, calls TransmitViaArm64, which returns
\* false unless IsConnected() and then calls SendFrame.
TransmitViaArm64 ==
    /\ m_useArm64Encoder /\ ~FrameSent
    /\ IF ~m_connected
         THEN UNCHANGED vars
         ELSE CallSendFrame

\* A faulty variant: the driver asking for a packet whatever SendFrame returned.
TransmitViaArm64_ReceivePacket_Always ==
    /\ result.op = "SendFrame"
    /\ CallReceivePacket

\* SendFrame returned true (false: return false): one ReceivePacket, and
\* TransmitViaArm64 returns with its result.
TransmitViaArm64_ReceivePacket ==
    /\ FrameSent
    /\ CallReceivePacket

\* VideoEncoderSW::Shutdown: m_arm64Encoder->Shutdown(); m_arm64Encoder.reset();
\* m_useArm64Encoder = false.  The destructor's Shutdown() finds every handle
\* null and m_connected false, and changes nothing.
VideoEncoderSW_Shutdown ==
    /\ m_useArm64Encoder /\ ~FrameSent
    /\ CallShutdown

\* An operation of the client goes on.
OperationStep ==
    \/ IN_poll
    \/ IN_events
    \/ IN_ready
    \/ ShutdownStep
    \/ SendFrame_header
    \/ SendFrame_copy
    \/ SendFrame_signal
    \/ RP_wait
    \/ RP_read

HostNext ==
    \/ TryInitArm64Encoder
    \/ TryInitArm64Encoder_reset
    \/ TransmitViaArm64
    \/ TransmitViaArm64_ReceivePacket
    \/ VideoEncoderSW_Shutdown
    \/ OperationStep
    \/ \E w \in Workers : WorkerStep(w)

\* The client driven by VideoEncoderSW, with the worker processes.
HostSpec == Init /\ [][HostNext]_vars

\* ------------------------------------------------- vocabulary of the claims
\* The operation that is running, or that returned last.
Running == IF pc = "idle" THEN result.op ELSE call.op

\* The data_size argument of that operation.
RunningSize == IF pc = "idle" THEN result.data_size ELSE call.data_size

\* This step is the caller's call of operation op.
Calls(op) == pc = "idle" /\ calls' = calls + 1 /\ Running' = op

\* This step is a step of the client (the worker changes none of the three).
ClientActs == <<pc, call, calls>>' # <<pc, call, calls>>

\* This step fails the running operation.
Fails(why) == pc' = "idle" /\ ~result'.ok /\ result'.why = why

\* The output arguments as the caller has set them up for the call.
OutputsUntouched == packet_data' = <<>> /\ timestamp_ns' = 0 /\ is_idr' = FALSE

NoHandle ==
    /\ ~m_sharedPtr /\ ~m_sharedMemory
    /\ ~m_frameReadyEvent /\ ~m_packetReadyEvent /\ ~m_encoderReadyEvent
    /\ m_encoderProcess = 0

SomeWorkerExited == \E w \in Workers : worker[w].pc = "exited"

\* ------------------------------------------------------------------- C1
\* C1: SendFrame and ReceivePacket called while the client is not Connected
\* (m_connected false, or no mapped view) fail in the step of the call, and that
\* step changes no byte of the shared region, no signal (frame_ready is not
\* raised, packet_ready not consumed), no field of the client, and leaves the
\* caller's output values as they were.
C1_NotConnectedFailsWithoutEffect ==
    [][ ((Calls("SendFrame") \/ Calls("ReceivePacket")) /\ (~m_connected \/ ~m_sharedPtr))
          => /\ Fails("NotConnected")
             /\ OutputsUntouched
             /\ UNCHANGED <<shared, signaled, fields, leaked, worker>> ]_vars

\* Both operations have been refused: ReceivePacket just now, after a session
\* that a Shutdown ended (its worker has exited), with a frame still in the
\* region and packet_ready still raised.
C1_Witness ==
    /\ pc = "idle"
    /\ result.op = "ReceivePacket" /\ result.why = "NotConnected"
    /\ ~m_connected
    /\ SomeWorkerExited
    /\ signaled[PACKET_READY_EVENT]

\* ------------------------------------------------------------------- C2
\* C2: a SendFrame call in Connected state with data_size above the capacity of
\* the frame buffer fails in the step of the call, and that step leaves the
\* whole shared region and the three signals exactly as they were.
C2_OversizeRejectedUntouched ==
    [][ (Calls("SendFrame") /\ m_connected /\ m_sharedPtr
            /\ RunningSize' > FRAME_BUFFER_SIZE)
          => /\ Fails("FrameTooLarge")
             /\ UNCHANGED <<shared, signaled>> ]_vars

\* An oversize frame has been rejected while the region held an earlier frame.
C2_Witness ==
    /\ pc = "idle"
    /\ result.op = "SendFrame" /\ result.why = "FrameTooLarge"
    /\ result.data_size > FRAME_BUFFER_SIZE
    /\ shared.frame_header.data_size > 0
    /\ shared.frame_buffer[1] # 0

\* ------------------------------------------------------------------- C3
\* C3: in every reachable state the data_size field of the frame header is at
\* most FRAME_BUFFER_SIZE, and a SendFrame that is past its entry tests, so that
\* its memcpy of data_size bytes into frame_buffer is done or still to come,
\* has a data_size of at most FRAME_BUFFER_SIZE.
C3_DataSizeWithinCapacity ==
    /\ shared.frame_header.data_size <= FRAME_BUFFER_SIZE
    /\ (pc \in Labels(SendFrameOrder) => call.data_size <= FRAME_BUFFER_SIZE)

\* A frame of exactly the capacity is in the region.
C3_Witness ==
    /\ shared.frame_header.data_size = FRAME_BUFFER_SIZE
    /\ shared.frame_buffer = Payload(FRAME_BUFFER_SIZE)

\* ------------------------------------------------------------------- C4
\* The header that SendFrame's arguments c describe, shutdown false.
HeaderOf(c) ==
    [width |-> c.width, height |-> c.height, timestamp_ns |-> c.timestamp_ns,
     insert_idr |-> IF c.insert_idr THEN 1 ELSE 0, pixel_format |-> c.format,
     row_pitch |-> c.row_pitch, data_size |-> c.data_size, shutdown |-> 0]

\* The frame slot holds the header and the payload of SendFrame's arguments c.
FrameComplete(sh, c) ==
    /\ sh.frame_header = HeaderOf(c)
    /\ \A i \in 1..c.data_size : sh.frame_buffer[i] = c.data[i]

\* This step of SendFrame raises frame_ready, or returns true.
RaisesOrSucceeds ==
    \/ signaled' # signaled
    \/ pc' = "idle" /\ result'.ok
    \/ pc' # "idle" /\ call'.trace # call.trace
                    /\ call'.trace[Len(call'.trace)] = "raise"

\* C4: a SendFrame in Connected state with data_size within capacity writes
\* every header field, shutdown as 0; its copy changes the first data_size bytes
\* of frame_buffer and nothing else; frame_ready is raised by it only when
\* header and payload are complete in the region; and when it returns true the
\* region holds its header and payload and frame_ready has been raised by it.
C4_HeaderAndPayloadBeforeRaise ==
    [][ /\ Calls("SendFrame") => UNCHANGED <<shared, signaled>>
        /\ (call.op = "SendFrame" /\ ClientActs)
             => /\ (shared'.frame_header # shared.frame_header
                       => shared'.frame_header = HeaderOf(call))
                /\ \A i \in 1..FRAME_BUFFER_SIZE :
                       shared'.frame_buffer[i] # shared.frame_buffer[i]
                           => i <= call.data_size
                /\ UNCHANGED <<shared.packet_buffer, shared.packet_header>>
                /\ RaisesOrSucceeds
                      => /\ FrameComplete(shared, call)
                         /\ signaled'[FRAME_READY_EVENT]
                         /\ UNCHANGED shared ]_vars

\* A frame of full capacity has been sent: the slot holds it and frame_ready
\* is raised.
C4_Witness ==
    /\ pc = "idle"
    /\ result.op = "SendFrame" /\ result.ok
    /\ result.data_size = FRAME_BUFFER_SIZE
    /\ shared.frame_buffer = Payload(FRAME_BUFFER_SIZE)
    /\ signaled[FRAME_READY_EVENT]

\* ------------------------------------------------------------------- C5
\* C5: once the shutdown flag of the frame header is 1, no step of the client
\* that leaves the region in existence makes it anything else.
C5_ShutdownFlagMonotonic ==
    [][ (shared.frame_header.shutdown = 1 /\ ClientActs /\ RegionNow')
          => shared'.frame_header.shutdown = 1 ]_vars

\* ------------------------------------------------------------------- C6
\* Shutdown, called from Connected state, has set the flag and is running.
ShutdownIssued ==
    pc # "idle" /\ call.op = "Shutdown" /\ "flag" \in Labels(call.trace)

\* C6: after Shutdown called from Connected state has set the flag, under fair
\* scheduling every worker process that was launched eventually exits.
C6_ShutdownMakesWorkerExit ==
    ShutdownIssued ~> (\A w \in Workers : worker[w].pc \in {"none", "exited"})

\* ------------------------------------------------------------------- C7
\* This step runs statements of Shutdown.
InShutdown == ClientActs /\ (Calls("Shutdown") \/ pc \in Labels(ShutdownOrder))

\* What the running operation has done before this step, and what this step does.
Done(what) == what \in Labels(call.trace)
Does(what) ==
    /\ pc' # "idle"
    /\ \E i \in (Len(call.trace) + 1)..Len(call'.trace) : call'.trace[i] = what

\* This step releases the view, the mapping handle or a signal handle.
Releases ==
    \/ m_sharedPtr /\ ~m_sharedPtr'
    \/ m_sharedMemory /\ ~m_sharedMemory'
    \/ m_frameReadyEvent /\ ~m_frameReadyEvent'
    \/ m_packetReadyEvent /\ ~m_packetReadyEvent'
    \/ m_encoderReadyEvent /\ ~m_encoderReadyEvent'

\* This step waits for the worker process and closes its handle.
WaitsOnProcess == m_encoderProcess # 0 /\ m_encoderProcess' = 0

\* C7 as stated: Shutdown raises frame_ready only with the flag set, and
\* releases the view, the mapping handle and the signal handles only after the
\* wait on the worker process.
C7_ReleaseAfterWait ==
    [][ InShutdown
          => /\ Does("raise") => shared.frame_header.shutdown = 1
             /\ Releases => m_encoderProcess = 0 ]_vars

\* C7, amended: Shutdown raises frame_ready only with the flag set; it releases
\* the view, the mapping handle and the signal handles after the flag and the
\* raise and before the wait on the worker process; the wait and the close of
\* the process handle come with all of them released; m_connected falls last.
C7_WaitAfterRelease ==
    [][ InShutdown
          => /\ Does("raise") => shared.frame_header.shutdown = 1
             /\ (Releases /\ m_connected /\ m_sharedPtr)
                   => Done("flag") /\ (m_frameReadyEvent => Done("raise"))
             /\ WaitsOnProcess
                   => /\ ~m_sharedPtr /\ ~m_sharedMemory
                      /\ ~m_frameReadyEvent /\ ~m_packetReadyEvent /\ ~m_encoderReadyEvent
             /\ (m_connected /\ ~m_connected') => NoHandle' ]_vars

\* Shutdown from Connected state is about to wait on the worker process: the
\* flag is set, frame_ready was raised, every other handle is released already,
\* and the worker has not exited.
C7_Witness ==
    /\ pc = "SD_wait"
    /\ call.op = "Shutdown"
    /\ call.trace = <<"flag", "raise", "release">>
    /\ m_encoderProcess # 0
    /\ worker[m_encoderProcess].pc # "exited"
    /\ ~m_sharedPtr /\ ~m_sharedMemory /\ ~m_frameReadyEvent

FrameTraffic ==
    \/ RegionNow' /\ shared'.frame_header # shared.frame_header
    \/ RegionNow' /\ shared'.frame_buffer # shared.frame_buffer
    \/ ~signaled[FRAME_READY_EVENT] /\ signaled'[FRAME_READY_EVENT]

\* C9: m_connected becomes true only in the step of Initialize that consumes a
\* raise of worker_ready, and the client writes the frame header or the frame
\* buffer or raises frame_ready only while m_connected is true.
C9_HandshakeBeforeTraffic ==
    [][ /\ (~m_connected /\ m_connected')
             => /\ pc = "IN_ready" /\ m_encoderReadyEvent
                /\ signaled[ENCODER_READY_EVENT] /\ ~signaled'[ENCODER_READY_EVENT]
        /\ (ClientActs /\ FrameTraffic) => m_connected ]_vars

\* Connected, the raise of worker_ready consumed, and a frame in the region.
C9_Witness ==
    /\ m_connected /\ m_sharedPtr
    /\ ~signaled[ENCODER_READY_EVENT]
    /\ shared.frame_header.data_size > 0
    /\ signaled[FRAME_READY_EVENT]

NoChannelHandle ==
    /\ ~m_sharedPtr /\ ~m_sharedMemory
    /\ ~m_frameReadyEvent /\ ~m_packetReadyEvent /\ ~m_encoderReadyEvent

\* C11: when, with the region mapped, one of the three OpenEventW calls of
\* Initialize finds its signal absent, Initialize opens no signal again, does
\* not wait on worker_ready, does not become Connected, and goes on to fail with
\* SignalUnavailable; on that return m_connected is false and the view, the
\* mapping handle and the three signal handles are released.
C11_MissingSignalTearsDown ==
    [][ ClientActs
          => /\ (pc = "IN_events" /\ \E s \in Signals : ~EventNow(s))
                   => /\ pc' \in Labels(ShutdownOrder)
                      /\ call'.why = "SignalUnavailable"
                      /\ m_connected' = m_connected
                      /\ UNCHANGED signaled
             /\ call.why = "SignalUnavailable"
                   => \/ /\ pc' \in Labels(ShutdownOrder)
                         /\ call'.why = "SignalUnavailable"
                         /\ m_connected' => m_connected
                         /\ signaled'[ENCODER_READY_EVENT] => signaled[ENCODER_READY_EVENT]
                      \/ /\ Fails("SignalUnavailable")
                         /\ ~m_connected'
                         /\ NoChannelHandle' ]_vars

\* Initialize has failed with SignalUnavailable against a worker that has
\* created the region and some, not all, of the signals.
C11_Witness ==
    /\ pc = "idle"
    /\ result.op = "Initialize" /\ result.why = "SignalUnavailable"
    /\ \E w \in Workers : /\ worker[w].region
                          /\ worker[w].events # {}
                          /\ worker[w].events # Signals
    /\ NoChannelHandle /\ ~m_connected

\* ------------------------------------------------------------------ C12
\* This step creates a worker process.
Launches == \E w \in Workers : worker[w].pc = "none" /\ worker'[w].pc # "none"

\* C12: a worker process is created only in the step that calls Initialize and
\* finds the region absent, one process at most; the WorkerBinaryNotFound
\* failure comes in that same step with no process created and no poll; the
\* poll counts its attempts up to 50, leaves the loop at the first attempt that
\* finds the region, and after 50 attempts that found it absent Initialize
\* fails with SharedRegionUnavailable without m_connected turning true.
C12_LaunchOnceAndBoundedPoll ==
    [][ ClientActs
          => /\ Launches
                   => /\ Calls("Initialize") /\ ~RegionNow
                      /\ Cardinality({w \in Workers : worker'[w] # worker[w]}) = 1
                      /\ pc' = "IN_poll" /\ call'.i = 0
             /\ Fails("WorkerBinaryNotFound")
                   => Calls("Initialize") /\ ~RegionNow /\ UNCHANGED worker
             /\ pc' = "IN_poll" => call'.i <= PollAttempts
             /\ (pc = "IN_poll" /\ call.i < PollAttempts /\ RegionNow)
                   => pc' # "IN_poll"
             /\ (pc = "IN_poll" /\ call.i < PollAttempts /\ ~RegionNow)
                   => pc' = "IN_poll" /\ call'.i = call.i + 1
             /\ (pc = "IN_poll" /\ call.i = PollAttempts)
                   => /\ Fails("SharedRegionUnavailable")
                      /\ m_connected' => m_connected
                      /\ UNCHANGED worker
             /\ (pc = "IN_poll" \/ Calls("Initialize"))
                   => (m_connected' => m_connected) ]_vars

\* Initialize has failed with SharedRegionUnavailable: the worker it launched
\* is alive and has not created the region.
C12_Witness ==
    /\ pc = "idle"
    /\ result.op = "Initialize" /\ result.why = "SharedRegionUnavailable"
    /\ m_encoderProcess # 0
    /\ worker[m_encoderProcess].pc = "start"
    /\ ~RegionNow

\* ------------------------------------------------------------------ C13
PerFrameFailures == {"FrameTooLarge", "SignalRaiseFailed", "Timeout", "PacketTooLarge"}

\* Connected, holding the view, the mapping handle and the three signal handles.
ConnectedWithChannel ==
    /\ m_connected /\ m_sharedPtr /\ m_sharedMemory
    /\ m_frameReadyEvent /\ m_packetReadyEvent /\ m_encoderReadyEvent

\* C13: no step of SendFrame or ReceivePacket changes m_connected or a handle
\* field; when one of them fails with FrameTooLarge, SignalRaiseFailed, Timeout
\* or PacketTooLarge the client is Connected and holds the view, the mapping
\* handle and the three signal handles; and a SendFrame or ReceivePacket called
\* directly after such a failure is not refused as NotConnected.
C13_PerFrameFailureKeepsSession ==
    [][ ClientActs
          => /\ (call.op \in {"SendFrame", "ReceivePacket"}
                    \/ Calls("SendFrame") \/ Calls("ReceivePacket"))
                   => UNCHANGED <<fields, leaked>>
             /\ (pc' = "idle" /\ ~result'.ok /\ result'.why \in PerFrameFailures)
                   => ConnectedWithChannel'
             /\ ((Calls("SendFrame") \/ Calls("ReceivePacket"))
                    /\ ~result.ok /\ result.why \in PerFrameFailures)
                   => ~Fails("NotConnected") ]_vars

\* ReceivePacket has failed with PacketTooLarge and the session is intact.
C13_Witness ==
    /\ pc = "idle"
    /\ result.op = "ReceivePacket" /\ result.why = "PacketTooLarge"
    /\ ConnectedWithChannel

\* ------------------------------------------------------------------ C14
\* C14: when ReceivePacket, woken by packet_ready, reads a size above
\* PACKET_BUFFER_SIZE from the packet header, it fails with PacketTooLarge and
\* leaves the caller's packet bytes, timestamp and IDR flag as they were; a
\* ReceivePacket that returns true hands over exactly the declared number of
\* bytes, at most PACKET_BUFFER_SIZE, all of them bytes of packet_buffer.
C14_OversizePacketRejected ==
    [][ ClientActs
          => /\ (pc = "RP_read" /\ shared.packet_header.size > PACKET_BUFFER_SIZE)
                   => /\ Fails("PacketTooLarge")
                      /\ UNCHANGED <<outputs, shared, signaled>>
             /\ (pc' = "idle" /\ result'.op = "ReceivePacket" /\ result'.ok)
                   => /\ Len(packet_data') <= PACKET_BUFFER_SIZE
                      /\ Len(packet_data') = shared.packet_header.size
                      /\ \A i \in 1..Len(packet_data') :
                             packet_data'[i] = shared.packet_buffer[i] ]_vars

\* ReceivePacket has refused a packet whose declared size is above the
\* capacity: the outputs are as the caller set them up.
C14_Witness ==
    /\ pc = "idle"
    /\ result.op = "ReceivePacket" /\ result.why = "PacketTooLarge"
    /\ shared.packet_header.size > PACKET_BUFFER_SIZE
    /\ shared.packet_header.timestamp_ns # 0
    /\ packet_data = <<>> /\ timestamp_ns = 0 /\ ~is_idr

\* ------------------------------------------------------------------ C15
\* The frame that SendFrame's arguments put into the frame slot, by its size.
SentFrame == FrameArgs(shared.frame_header.data_size)

\* The packet slot is the echo of the frame in the frame slot: the header with
\* the size, the timestamp and the IDR request of that frame, the buffer with
\* the frame's bytes as far as they fit.
Echoed ==
    /\ shared.packet_header =
           PacketHeader(shared.frame_header.data_size, shared.frame_header.timestamp_ns,
                        shared.frame_header.insert_idr)
    /\ \A i \in 1..Min(shared.frame_header.data_size, PACKET_BUFFER_SIZE) :
           shared.packet_buffer[i] = shared.frame_buffer[i]

\* This step returns from ReceivePacket with the frame that was sent: its
\* bytes, its size, its timestamp, and the IDR flag of the packet header.
ReturnsTheFrame ==
    /\ pc' = "idle" /\ result'.ok
    /\ packet_data' = SentFrame.data
    /\ Len(packet_data') = SentFrame.data_size
    /\ timestamp_ns' = SentFrame.timestamp_ns
    /\ is_idr' = (shared.packet_header.is_idr # 0)

\* C15 as stated: for every frame of a size up to the frame buffer capacity,
\* once the worker has echoed it, the ReceivePacket woken by packet_ready
\* returns the frame's bytes, size and timestamp and the worker's IDR flag.
C15_RoundTrip ==
    [][ (ClientActs /\ pc = "RP_read" /\ Echoed
            /\ shared.frame_header.data_size <= FRAME_BUFFER_SIZE)
          => ReturnsTheFrame ]_vars

\* C15, amended: the same for every frame of a size up to the packet buffer
\* capacity; the echo of a larger frame declares a size above the packet buffer
\* capacity and ReceivePacket fails with PacketTooLarge.
C15_RoundTripWithinPacketCapacity ==
    [][ (ClientActs /\ pc = "RP_read" /\ Echoed)
          => IF shared.frame_header.data_size <= PACKET_BUFFER_SIZE
               THEN ReturnsTheFrame
               ELSE Fails("PacketTooLarge") /\ UNCHANGED outputs ]_vars

\* ReceivePacket has returned the echo of a frame that fills the packet buffer.
C15_Witness ==
    /\ pc = "idle"
    /\ result.op = "ReceivePacket" /\ result.ok
    /\ Echoed
    /\ shared.frame_header.data_size = PACKET_BUFFER_SIZE
    /\ packet_data = Payload(PACKET_BUFFER_SIZE)
    /\ timestamp_ns = FrameArgs(PACKET_BUFFER_SIZE).timestamp_ns

\* ------------------------------------------------------------------ C16
\* The worker's raise of packet_ready: the last step of serving a frame.
WorkerRaisesPacketReady ==
    \E w \in Workers : worker[w].pc = "signal" /\ worker'[w].pc = "wait"

\* C16: packet_ready does not re-fire on stale state.  The wait of
\* ReceivePacket goes on to read a packet only when packet_ready is raised, and
\* it consumes that raise; with no raise pending it ends in Timeout and leaves
\* the caller's outputs alone.  Nothing but that wait leads to the read, a
\* packet is returned only from the read, the read raises nothing, and only a
\* worker's raise sets packet_ready.  So a ReceivePacket that follows one which
\* returned a packet, with no raise by a worker in between, ends in Timeout, and
\* the packets returned never outnumber the raises of packet_ready.
C16_PacketReadyConsumedByWait ==
    [][ /\ (ClientActs /\ pc = "RP_wait") =>
               IF signaled[PACKET_READY_EVENT]
                 THEN pc' = "RP_read" /\ ~signaled'[PACKET_READY_EVENT]
                 ELSE Fails("Timeout") /\ UNCHANGED outputs
        /\ (pc # "RP_read" /\ pc' = "RP_read") =>
               pc = "RP_wait" /\ signaled[PACKET_READY_EVENT]
                 /\ ~signaled'[PACKET_READY_EVENT]
        /\ (ClientActs /\ pc' = "idle" /\ result'.op = "ReceivePacket" /\ result'.ok) =>
               pc = "RP_read"
        /\ (ClientActs /\ pc = "RP_read") => UNCHANGED signaled
        /\ (~signaled[PACKET_READY_EVENT] /\ signaled'[PACKET_READY_EVENT]) =>
               WorkerRaisesPacketReady ]_vars

\* Initialize, SendFrame, a ReceivePacket that returned the worker's packet and
\* a second ReceivePacket: the packet is still in the slot, no worker is about
\* to raise packet_ready, and the second call ended in Timeout.
C16_Witness ==
    /\ pc = "idle" /\ calls = 4
    /\ result.op = "ReceivePacket" /\ ~result.ok /\ result.why = "Timeout"
    /\ m_connected
    /\ shared.packet_header.timestamp_ns # 0
    /\ ~PacketTooLarge(shared.packet_header.size)
    /\ ~signaled[PACKET_READY_EVENT]
    /\ \A w \in Workers : worker[w].pc \notin {"encode", "signal"}

\* ------------------------------------------------------------------ C17
\* C17: no client operation blocks indefinitely, whatever the worker does.
\* With only the client thread scheduled (a worker may never start, stop at any
\* point or never raise a signal), every operation in progress returns.  And
\* SendFrame has no wait: each of its statements can run in whatever state the
\* workers are, and leads straight to the next one or to the return.
C17_ClientNeverBlocks ==
    /\ (pc # "idle") ~> (pc = "idle")
    /\ [](pc \in Labels(SendFrameOrder) => ENABLED ClientRuns)
    /\ [][ (ClientActs /\ pc \in Labels(SendFrameOrder)) =>
               /\ pc' \in {After(SendFrameOrder, pc, "idle"), "idle"}
               /\ UNCHANGED worker ]_vars

\* ReceivePacket has returned (Timeout) although the frame sent before it is
\* still waiting for a worker: frame_ready is pending and no worker has woken.
C17_Witness ==
    /\ pc = "idle"
    /\ result.op = "ReceivePacket" /\ ~result.ok /\ result.why = "Timeout"
    /\ signaled[FRAME_READY_EVENT]
    /\ shared.frame_header.timestamp_ns # 0
    /\ \A w \in Workers : worker[w].pc \in {"none", "start", "created", "wait"}

\* ------------------------------------------------------------------ C18
\* The last operation was a SendFrame that returned true.
SendFrameReturnedTrue == pc = "idle" /\ result.op = "SendFrame" /\ result.ok

\* Worker w reads the frame slot in this step.
WorkerReadsFrame(w) == worker[w].pc = "woken" /\ worker'[w].pc = "encode"

\* C18: two SendFrame calls with nothing between them.  A SendFrame in
\* Connected state with a size within capacity is accepted whether or not
\* frame_ready is still pending from an earlier call (no slot-busy detection);
\* when it returns true the slot holds exactly its header and payload and
\* frame_ready is raised, a binary state that one wake of a worker consumes;
\* and a worker that reads the slot after that return, before the next client
\* call, takes that call's payload, timestamp and IDR request.
C18_SecondSendOverwrites ==
    [][ /\ (Calls("SendFrame") /\ m_connected /\ m_sharedPtr
                /\ ~FrameTooLarge(RunningSize')) =>
               pc' = SendFrameOrder[1] /\ UNCHANGED <<shared, signaled>>
        /\ (ClientActs /\ SendFrameReturnedTrue') =>
               /\ FrameComplete(shared', FrameArgs(result'.data_size))
               /\ signaled'[FRAME_READY_EVENT] = TRUE
        /\ \A w \in Workers :
               /\ (worker[w].pc = "wait" /\ worker'[w].pc = "woken") =>
                      signaled[FRAME_READY_EVENT] /\ ~signaled'[FRAME_READY_EVENT]
               /\ (SendFrameReturnedTrue /\ WorkerReadsFrame(w)) =>
                      /\ worker'[w].frame.data = Payload(result.data_size)
                      /\ worker'[w].frame.timestamp_ns =
                             FrameArgs(result.data_size).timestamp_ns
                      /\ worker'[w].frame.insert_idr =
                             HeaderOf(FrameArgs(result.data_size)).insert_idr ]_vars

\* Initialize, SendFrame of a frame of full capacity, SendFrame of a frame of
\* one byte, and then the worker's wake: the one raise is consumed, the worker
\* holds the second frame, and the slot's last byte is still the first frame's.
C18_Witness ==
    /\ SendFrameReturnedTrue /\ calls = 3 /\ result.data_size = 1
    /\ ~signaled[FRAME_READY_EVENT]
    /\ shared.frame_header = HeaderOf(FrameArgs(1))
    /\ shared.frame_buffer[1] = Payload(1)[1]
    /\ shared.frame_buffer[FRAME_BUFFER_SIZE] = Payload(FRAME_BUFFER_SIZE)[1]
    /\ \E w \in Workers :
          /\ worker[w].pc = "encode"
          /\ worker[w].frame.data = Payload(1)
          /\ worker[w].frame.timestamp_ns = FrameArgs(1).timestamp_ns

\* ------------------------------------------------------------------ C19
\* C19: the host's per-frame driver keeps to the usage protocol.  It calls
\* SendFrame only with the client connected and with no frame of its own
\* outstanding (the ReceivePacket of the frame before has returned, with a
\* packet or a timeout); it calls ReceivePacket only when SendFrame has just
\* returned true, in Connected state; and after a SendFrame that returned true
\* its next call is that one ReceivePacket.
C19_DriverKeepsProtocol ==
    [][ /\ Calls("SendFrame") =>
               /\ m_connected
               /\ \/ result.op = "Initialize" /\ result.ok
                  \/ result.op = "ReceivePacket"
                  \/ result.op = "SendFrame" /\ ~result.ok
        /\ Calls("ReceivePacket") => FrameSent /\ m_connected
        /\ (ClientActs /\ pc = "idle" /\ FrameSent) => Calls("ReceivePacket") ]_vars

\* Two frames driven through the client: Initialize, then twice SendFrame and
\* its ReceivePacket, the last of which returned a packet.
C19_Witness ==
    /\ pc = "idle" /\ calls = 5 /\ m_connected
    /\ result.op = "ReceivePacket" /\ result.ok
    /\ timestamp_ns # 0

\* ------------------------------------------------------------------ C20
\* C20: under the driver's protocol (one SendFrame, then one ReceivePacket that
\* returns a packet or times out) and with workers that echo each frame's
\* timestamp into its packet, every packet that ReceivePacket returns carries
\* the timestamp of the frame written by the most recent SendFrame, which is
\* the one in the frame slot, also in a cycle after one whose ReceivePacket
\* timed out.
C20_PacketOfLatestFrame ==
    [][ (ClientActs /\ pc = "RP_read" /\ pc' = "idle" /\ result'.ok) =>
            timestamp_ns' = shared.frame_header.timestamp_ns ]_vars

\* ------------------------------------------------------------------ C21
\* The frame worker w has read is, header and payload, the frame of one
\* SendFrame call.
ReadOneFrame(w) ==
    \E n \in FrameSizes :
        /\ worker[w].frame.data = Payload(n)
        /\ worker[w].frame.timestamp_ns = FrameArgs(n).timestamp_ns
        /\ worker[w].frame.insert_idr = HeaderOf(FrameArgs(n)).insert_idr

\* C21: under the driver's protocol (SendFrame only after the ReceivePacket of
\* the frame before has returned, with a packet or a timeout) no worker reads a
\* torn frame: while a worker is between its frame_ready wake-up and the end
\* of its read, the client writes neither the frame header nor the frame
\* buffer, and what a worker reads is the header and payload of one single
\* SendFrame call.
C21_NoTornFrame ==
    [][ \A w \in Workers :
            /\ (worker[w].pc = "woken" /\ call.op = "SendFrame" /\ ClientActs) =>
                   UNCHANGED <<shared.frame_header, shared.frame_buffer>>
            /\ WorkerReadsFrame(w) => ReadOneFrame(w)' ]_vars

\* ------------------------------------------------------------------ C22
\* This step is a failing return of Initialize.
InitializeFails == ClientActs /\ pc' = "idle" /\ result'.op = "Initialize" /\ ~result'.ok

\* C22: every failing path of Initialize on a fresh client returns with the
\* client holding no OS resource.  The driver calls Initialize on fresh clients
\* only (Disconnected, no handle held), and a failing return of Initialize
\* leaves no view, no mapping handle, no signal handle and no process handle.
C22_FailedInitializeHoldsNothing ==
    [][ /\ Calls("Initialize") => NoHandle /\ ~m_connected
        /\ InitializeFails => NoHandle' /\ ~m_connected' ]_vars

\* ------------------------------------------------------------------ C23
\* C23: whenever IsConnected() is true, as a caller sees it between calls, the
\* client holds a mapping handle, a mapped view and all three signal handles,
\* whatever calls were made before, Initialize on a Connected client included.
C23_ConnectedHoldsChannel ==
    (pc = "idle" /\ m_connected) =>
        /\ m_sharedMemory /\ m_sharedPtr
        /\ m_frameReadyEvent /\ m_packetReadyEvent /\ m_encoderReadyEvent

\* ------------------------------------------------------------------ C24
\* The worker's raise of worker_ready: the end of its start-up.
WorkerRaisesReady ==
    \E w \in Workers : worker[w].pc = "created" /\ worker'[w].pc = "wait"

\* C24: each raise of worker_ready admits at most one successful Initialize.
\* The readiness wait of Initialize ends in Connected only when worker_ready is
\* raised, and it consumes that raise; with no raise pending it goes into
\* Shutdown with WorkerNotReady and connects nothing.  Initialize returns true
\* from nowhere else, m_connected becomes true nowhere else, and only a
\* worker's raise sets worker_ready.  So the Initialize calls that reach
\* Connected never outnumber the raises, and an Initialize that attaches to a
\* region left from an earlier session stays Disconnected unless a worker
\* raises worker_ready again.
C24_ReadyRaiseAdmitsOneInitialize ==
    [][ /\ (ClientActs /\ pc = "IN_ready") =>
               IF signaled[ENCODER_READY_EVENT]
                 THEN /\ pc' = "idle" /\ result'.op = "Initialize" /\ result'.ok
                      /\ m_connected' /\ ~signaled'[ENCODER_READY_EVENT]
                 ELSE /\ pc' \in Labels(ShutdownOrder)
                      /\ call'.why = "WorkerNotReady"
                      /\ m_connected' = m_connected
        /\ (ClientActs /\ pc' = "idle" /\ result'.op = "Initialize" /\ result'.ok) =>
               pc = "IN_ready" /\ signaled[ENCODER_READY_EVENT]
                 /\ ~signaled'[ENCODER_READY_EVENT]
        /\ (~m_connected /\ m_connected') =>
               pc = "IN_ready" /\ signaled[ENCODER_READY_EVENT]
        /\ (~signaled[ENCODER_READY_EVENT] /\ signaled'[ENCODER_READY_EVENT]) =>
               WorkerRaisesReady ]_vars

\* Initialize, Shutdown and Initialize again with the one worker still waiting
\* for frame_ready: the region of the first session is still there, the one
\* raise of worker_ready was consumed by the first Initialize, and the second
\* ended Disconnected with WorkerNotReady.  No handle was overwritten, so the
\* call between the two was the Shutdown.
C24_Witness ==
    /\ pc = "idle" /\ calls = 3 /\ ~m_connected /\ leaked = {}
    /\ result.op = "Initialize" /\ ~result.ok /\ result.why = "WorkerNotReady"
    /\ ~signaled[ENCODER_READY_EVENT]
    /\ \E w \in Workers :
          /\ worker[w].pc = "wait"
          /\ \A v \in Workers \ {w} : worker[v].pc = "none"

====
